---- MODULE Spec2Model ----
(***************************************************************************)
(* Campaign / thread state machine of the outreach system: campaign        *)
(* creation, campaign start (API handlers and GmailService), the two       *)
(* follow-up sweeps (cron handler and GmailService.processFollowUps), the  *)
(* manual follow-up handlers, reply detection and the process-campaigns    *)
(* cron run, over the email_campaigns / email_threads / conversations      *)
(* tables of the schema, and the business_cache get and set of the scrape  *)
(* handler.  Time is counted in days.                                      *)
(***************************************************************************)
EXTENDS Integers, Sequences, FiniteSets, TLC

(* ------------------------------ bounds --------------------------------- *)
\* number of company rows
NumCompanies == 2
\* campaigns that may be created in one behaviour
MaxCampaigns == 1
\* campaigns that may be created in a behaviour of creations and replies only
MaxRepliedCampaigns == 2
\* thread rows that may be created in one behaviour
MaxThreads == 2
\* last day the clock reaches
MaxTime == 7
\* initial emails one thread may be sent (GmailService.startCampaign re-sends)
MaxInitialSends == 2
\* last day the clock reaches after weeks have passed
MaxElapsedTime == 100
\* distinct cache keys (content hashes)
NumCacheKeys == 1
\* distinct cached payloads
NumPayloads == 2
\* rows of the companies table the scrape and enrichment requests reach
MaxCompanyRows == 2
\* the last day on which scrape and enrichment requests are followed
MaxScrapeTime == 37
\* rows of the analytics table the daily aggregation reaches
MaxAnalyticsRows == 10
\* follow-up prefixes an original subject starts with, at most
MaxSubjectPrefixes == 2
\* days the clock counts before times are kept relative to the current day
LiveWindow == 57
\* start requests of the API handler running at once, at most
MaxStartRequests == 2

(* ------------------------- program constants --------------------------- *)
\* follow-up ceiling of the cron sweep's query, .lt('follow_up_count', 6)
CronMaxFollowUps == 6
\* follow-up ceiling of the manual follow-up handlers
ManualMaxFollowUps == 6
\* follow-up ceiling of GmailService.processFollowUps' query
ServiceMaxFollowUps == 12
\* GmailService.processFollowUps schedules another follow-up below this count
ServiceLastScheduled == 11
\* process-campaigns closes threads with at least this many follow-ups
CleanupMinFollowUps == 6
\* process-campaigns closes threads created more than this many days ago
ThreadMaxAgeDays == 42
\* process-campaigns archives campaigns created more than this many days ago
CampaignMaxAgeDays == 56
\* the "weekly" follow-up delay
WeeklyDays == 7
\* days a directory-scrape result is cached
DirectoryCacheDays == 7
\* days an email-extraction result and a saved business record are cached
ExtractionCacheDays == 30
\* ninetyDaysAgo.setDate(ninetyDaysAgo.getDate() - 90)
RetentionDays == 90
\* scrapedContent.length < 50
MinContentLength == 50
\* enrichCompanyData(batchSize: number = 10)
DefaultBatchSize == 10

\* SQL NULL / JavaScript null for a timestamp column
NULL == 0 - 1
\* JavaScript undefined for an omitted numeric argument
UNDEFINED == 0 - 2

Companies == 1..NumCompanies
\* a company id of a request body that names no row of companies
UnknownCompany == NumCompanies + 1

\* the two delays Math.random() > 0.5 ? 3 : 4 can produce
RandomDays == {3, 4}

VARIABLES
  now,                \* the clock, in days
  companyEmail,       \* companies.email IS NOT NULL, per company
  campaigns,          \* email_campaigns rows, in creation order (id = index)
  threads,            \* email_threads rows, in creation order (id = index)
  conversations,      \* conversations rows, in creation order
  initialDelivered,   \* initial emails handed to the mailbox provider, per thread
  followUpsDelivered, \* follow-up emails handed to the mailbox provider, per thread
  cronQueue,          \* rows the running cron sweep has fetched and not yet processed
  svcQueue,           \* rows the running processFollowUps has fetched and not yet processed
  accountStatus,      \* email_accounts.status of the account that owns the campaigns
  cache,              \* business_cache rows, by (business_key, cache_type)
  cacheReturned,      \* what the last getCachedData returned, until the next cache operation
  cronResults,        \* results.sent and results.errors of the cron sweep's summary
  companyRows,        \* companies rows the scrape requests have saved, in creation order (id = index)
  savedLog,           \* the successful saves of the scrape requests: identity key, day, row
  lastScrape,         \* the response of the last scrape request and the calls it made
  enrichmentCache,    \* enrichment_cache rows
  lastEnrich,         \* the companies for which the last enrichment request called the language model
  dailyAnalytics,     \* analytics rows of the metrics generateDailyAnalytics writes, in insertion order
  subjectThread,      \* subject and follow_up_count of the thread whose follow-up subjects are followed
  sentSubject,        \* the Subject header of the last follow-up email of that thread, and its send path
  startFetched,       \* per running start request: the campaign and the threads its query returned
  expiredReads        \* (key, category) of the getCachedData calls that read an expired row and have not yet deleted

vars == <<now, companyEmail, campaigns, threads, conversations,
          initialDelivered, followUpsDelivered, cronQueue, svcQueue,
          accountStatus, cache, cacheReturned, cronResults,
          companyRows, savedLog, lastScrape, enrichmentCache, lastEnrich,
          dailyAnalytics, subjectThread, sentSubject, startFetched,
          expiredReads>>

\* the companies saved by scraping, their enrichment, and the daily metrics
dataVars == <<companyRows, savedLog, lastScrape, enrichmentCache, lastEnrich,
              dailyAnalytics>>

\* the variables only the operations followed step by step write
flightVars == <<subjectThread, sentSubject, startFetched, expiredReads>>

\* the variables no campaign, thread or reply operation writes
otherVars == <<accountStatus, cache, cacheReturned, dataVars, flightVars>>

\* the variables no cache operation writes
tableVars == <<now, companyEmail, campaigns, threads, conversations,
               initialDelivered, followUpsDelivered, cronQueue, svcQueue,
               accountStatus, cronResults, dataVars, flightVars>>

ThreadIds == DOMAIN threads
CampaignIds == DOMAIN campaigns

\* CHECK (conversation_status IN ('pending', 'responded', 'closed'))
ThreadStatusAccepted == {"pending", "responded", "closed"}

\* CHECK (status IN ('draft', 'active', 'paused', 'completed'))
CampaignStatusAccepted == {"draft", "active", "paused", "completed"}

\* email_accounts: CHECK (status IN ('active', 'inactive', 'error'))
AccountStatusAccepted == {"active", "inactive", "error"}

\* what a cache call that returns nothing leaves as the last returned value
NoCall == [called |-> FALSE, key |-> 0, type |-> "", payload |-> NULL,
           at |-> 0, expired |-> FALSE, repeated |-> FALSE]

CacheKeys == 1..NumCacheKeys
\* the cache_type values of the call sites
CacheTypes == {"business_data", "email_extraction"}
Payloads == 1..NumPayloads
\* (cacheType, daysToExpire) of the setCachedData call sites
\* what a state holds before any scrape request has been answered
NoScrape == [called |-> FALSE, at |-> 0, directoryCalled |-> FALSE,
             directoryFailed |-> FALSE,
             outcomes |-> <<>>]
\* what a state holds before any enrichment request has run
NoEnrich == [called |-> FALSE, modelCalls |-> {}, cachedBefore |-> {}]
\* what a state holds before any follow-up of the followed thread was sent
NoSubject == [sent |-> FALSE, path |-> "", number |-> 0, subject |-> <<>>]
\* a start request slot with no request running
NoStart == [running |-> FALSE, campaign_id |-> 0, threads |-> {}]
\* a thread as createEmailCampaign leaves it, with a plain subject
PlainThread == [subject |-> <<"Hello">>, follow_up_count |-> 0]

CacheCalls == {<<"business_data", DirectoryCacheDays>>,
               <<"business_data", ExtractionCacheDays>>,
               <<"email_extraction", ExtractionCacheDays>>}

(* -------------------- next-follow-up computations ---------------------- *)
\* cron sweep: calculateNextFollowUp(followUpCount)
Cron_calculateNextFollowUp(followUpCount) ==
  IF followUpCount >= 6 THEN {NULL}
  ELSE IF followUpCount <= 2 THEN {now + d : d \in RandomDays}
  ELSE {now + WeeklyDays}

\* manual follow-up handler: calculateNextFollowUp(followUpCount)
Manual_calculateNextFollowUp(followUpCount) ==
  IF followUpCount >= 6 THEN {NULL}
  ELSE IF followUpCount <= 2 THEN {now + d : d \in RandomDays}
  ELSE {now + WeeklyDays}

\* campaigns/index.ts: calculateNextFollowUp(followUpCount?)
Index_calculateNextFollowUp(followUpCount) ==
  IF followUpCount = UNDEFINED \/ followUpCount = 0 \/ followUpCount >= 6 THEN {NULL}
  ELSE IF followUpCount <= 2 THEN {now + d : d \in RandomDays}
  ELSE {now + WeeklyDays}

\* campaigns/start.ts: calculateNextFollowUp()
Start_calculateNextFollowUp == {now + d : d \in RandomDays}

\* GmailService.calculateNextFollowUp()
Service_calculateNextFollowUp == {now + d : d \in RandomDays}

(* ------------------------------ Init ----------------------------------- *)
\* the tables before the first campaign is created; the companies were
\* scraped earlier, each with or without an extracted email address
InitStart ==
  /\ now = 0
  /\ companyEmail \in [Companies -> BOOLEAN]
  /\ campaigns = <<>>
  /\ threads = <<>>
  /\ conversations = <<>>
  /\ initialDelivered = <<>>
  /\ followUpsDelivered = <<>>
  /\ cronQueue = {}
  /\ svcQueue = {}
  /\ accountStatus \in AccountStatusAccepted
  /\ cache = {}
  /\ cacheReturned = NoCall
  /\ cronResults = [sent |-> 0, errors |-> 0]
  /\ companyRows = <<>>
  /\ savedLog = {}
  /\ lastScrape = NoScrape
  /\ enrichmentCache = {}
  /\ lastEnrich = NoEnrich
  /\ dailyAnalytics = <<>>
  /\ subjectThread = PlainThread
  /\ sentSubject = NoSubject
  /\ startFetched = [r \in 1..MaxStartRequests |-> NoStart]
  /\ expiredReads = {}

\* the same, with an email address extracted for the odd-numbered companies
\* and the account as gmail/auth stores it
Init ==
  /\ InitStart
  /\ companyEmail = [c \in Companies |-> c % 2 = 1]
  /\ accountStatus = "active"

\* the row email_threads.insert creates for one company of a campaign
NewThread(campaignId, companyId) ==
  [campaign_id |-> campaignId, company_id |-> companyId,
   sent_at |-> NULL, response_received |-> FALSE,
   conversation_status |-> "pending", follow_up_count |-> 0,
   next_follow_up |-> NULL, created_at |-> now]

\* the rows of a bulk insert, one per company id, in id order
RECURSIVE NewThreads(_, _)
NewThreads(campaignId, ids) ==
  IF ids = {} THEN <<>>
  ELSE LET c == CHOOSE x \in ids : \A y \in ids : x <= y
       IN <<NewThread(campaignId, c)>> \o NewThreads(campaignId, ids \ {c})

\* the campaign insert followed by the bulk thread insert; the thread insert
\* is one statement and is rejected as a whole when a company_id names no
\* row of companies (REFERENCES companies(id)), leaving the campaign row
InsertCampaignAndThreads(finalCompanyIds) ==
  LET id == Len(campaigns) + 1
      fkOk == finalCompanyIds \subseteq Companies
      rows == IF fkOk THEN NewThreads(id, finalCompanyIds) ELSE <<>>
  IN /\ Len(campaigns) < MaxRepliedCampaigns
     /\ Len(threads) + Cardinality(finalCompanyIds) <= MaxThreads
     /\ campaigns' = Append(campaigns,
          [status |-> "draft", company_count |-> Cardinality(finalCompanyIds),
           created_at |-> now])
     /\ threads' = threads \o rows
     /\ initialDelivered' = initialDelivered \o [i \in 1..Len(rows) |-> 0]
     /\ followUpsDelivered' = followUpsDelivered \o [i \in 1..Len(rows) |-> 0]
     /\ UNCHANGED <<otherVars, cronResults>>
     /\ UNCHANGED <<now, companyEmail, conversations, cronQueue, svcQueue>>

\* the company-id list the create handlers resolve: the request's list, or
\* when it is empty the companies with an email that pass the filters
ResolvedCompanyIds(company_ids) ==
  IF company_ids # {} THEN {company_ids}
  ELSE SUBSET {c \in Companies : companyEmail[c]}

\* api/campaigns/create.ts handler
CreateCampaign(company_ids) ==
  \E finalCompanyIds \in ResolvedCompanyIds(company_ids) :
    /\ accountStatus = "active"
    /\ finalCompanyIds # {}
    /\ InsertCampaignAndThreads(finalCompanyIds)

\* api/campaigns/index.ts handleCreate
HandleCreate(company_ids) ==
  \E finalCompanyIds \in ResolvedCompanyIds(company_ids) :
    /\ accountStatus = "active"
    /\ finalCompanyIds # {}
    /\ InsertCampaignAndThreads(finalCompanyIds)

\* GmailService.createEmailCampaign, called with a non-empty companyIds
CreateEmailCampaign(companyIds) ==
  /\ companyIds # {}
  /\ InsertCampaignAndThreads(companyIds)

(* --------------------------- campaign start ---------------------------- *)
\* threads the start handlers fetch: of the campaign, pending, sent_at IS NULL
PendingUnsentThreads(campaign_id) ==
  {t \in ThreadIds : /\ threads[t].campaign_id = campaign_id
                     /\ threads[t].conversation_status = "pending"
                     /\ threads[t].sent_at = NULL}

\* the send loop of both start handlers: the threads of sentIds are sent one
\* initial email and updated with sent_at and the next_follow_up of nextOf;
\* every other fetched thread (no email address, or the send threw) is left as
\* it is; the campaign ends active if any thread was sent, draft otherwise
StartSendLoop(campaign_id, sentIds, nextOf) ==
  /\ threads' = [t \in ThreadIds |->
       IF t \in sentIds
       THEN [threads[t] EXCEPT !.sent_at = now, !.next_follow_up = nextOf[t]]
       ELSE threads[t]]
  /\ initialDelivered' = [t \in ThreadIds |->
       IF t \in sentIds THEN initialDelivered[t] + 1 ELSE initialDelivered[t]]
  /\ campaigns' = [campaigns EXCEPT ![campaign_id].status =
       IF sentIds # {} THEN "active" ELSE "draft"]
  /\ UNCHANGED <<otherVars, cronResults>>
  /\ UNCHANGED <<now, companyEmail, conversations, followUpsDelivered,
                 cronQueue, svcQueue>>

\* api/campaigns/start.ts handler
StartCampaignHandler(campaign_id) ==
  /\ campaign_id \in CampaignIds
  /\ campaigns[campaign_id].status = "draft"
  /\ PendingUnsentThreads(campaign_id) # {}
  /\ \E sentIds \in SUBSET {t \in PendingUnsentThreads(campaign_id) :
                              companyEmail[threads[t].company_id]} :
       /\ \A t \in sentIds : initialDelivered[t] < MaxInitialSends
       /\ \E nextOf \in [sentIds -> Start_calculateNextFollowUp] :
            StartSendLoop(campaign_id, sentIds, nextOf)

\* api/campaigns/index.ts handleStart
HandleStart(campaign_id) ==
  /\ campaign_id \in CampaignIds
  /\ campaigns[campaign_id].status = "draft"
  /\ PendingUnsentThreads(campaign_id) # {}
  /\ \E sentIds \in SUBSET {t \in PendingUnsentThreads(campaign_id) :
                              companyEmail[threads[t].company_id]} :
       /\ \A t \in sentIds : initialDelivered[t] < MaxInitialSends
       /\ \E nextOf \in [sentIds -> Index_calculateNextFollowUp(UNDEFINED)] :
            StartSendLoop(campaign_id, sentIds, nextOf)

\* api/campaigns/start.ts handler, followed step by step: the campaign read
\* with the draft check and the unsent-thread query of one request
StartRead(r, campaign_id) ==
  /\ ~startFetched[r].running
  /\ campaign_id \in CampaignIds
  /\ campaigns[campaign_id].status = "draft"
  /\ PendingUnsentThreads(campaign_id) # {}
  /\ startFetched' = [startFetched EXCEPT ![r] =
       [running |-> TRUE, campaign_id |-> campaign_id,
        threads |-> PendingUnsentThreads(campaign_id)]]
  /\ UNCHANGED <<now, companyEmail, campaigns, threads, conversations,
                 initialDelivered, followUpsDelivered, cronQueue, svcQueue,
                 accountStatus, cache, cacheReturned, cronResults, dataVars,
                 subjectThread, sentSubject, expiredReads>>

\* the rest of that request: the send loop over the threads it fetched and
\* the campaign status update (sent > 0 ? 'active' : 'draft')
StartSendAndStamp(r) ==
  /\ startFetched[r].running
  /\ startFetched' = [startFetched EXCEPT ![r] = NoStart]
  /\ \E sentIds \in SUBSET {t \in startFetched[r].threads :
                              companyEmail[threads[t].company_id]} :
       /\ \A t \in sentIds : initialDelivered[t] < MaxInitialSends
       /\ \E nextOf \in [sentIds -> Start_calculateNextFollowUp] :
            /\ threads' = [t \in ThreadIds |->
                 IF t \in sentIds
                 THEN [threads[t] EXCEPT !.sent_at = now,
                                         !.next_follow_up = nextOf[t]]
                 ELSE threads[t]]
            /\ initialDelivered' = [t \in ThreadIds |->
                 IF t \in sentIds THEN initialDelivered[t] + 1
                 ELSE initialDelivered[t]]
            /\ campaigns' = [campaigns EXCEPT
                 ![startFetched[r].campaign_id].status =
                   IF sentIds # {} THEN "active" ELSE "draft"]
  /\ UNCHANGED <<now, companyEmail, conversations, followUpsDelivered,
                 cronQueue, svcQueue, accountStatus, cache, cacheReturned,
                 cronResults, dataVars, subjectThread, sentSubject,
                 expiredReads>>

\* threads GmailService.startCampaign fetches: of the campaign, pending
ServicePendingThreads(campaignId) ==
  {t \in ThreadIds : /\ threads[t].campaign_id = campaignId
                     /\ threads[t].conversation_status = "pending"}

\* GmailService.startCampaign: the status update comes first and matches no
\* row when the id names no campaign
ServiceStartCampaign(campaignId) ==
  /\ campaigns' = [c \in CampaignIds |->
       IF c = campaignId THEN [campaigns[c] EXCEPT !.status = "active"]
       ELSE campaigns[c]]
  /\ \E sentIds \in SUBSET {t \in ServicePendingThreads(campaignId) :
                              companyEmail[threads[t].company_id]} :
       /\ \A t \in sentIds : initialDelivered[t] < MaxInitialSends
       /\ \E nextOf \in [sentIds -> Service_calculateNextFollowUp] :
            /\ threads' = [t \in ThreadIds |->
                 IF t \in sentIds
                 THEN [threads[t] EXCEPT !.sent_at = now,
                                         !.next_follow_up = nextOf[t]]
                 ELSE threads[t]]
            /\ initialDelivered' = [t \in ThreadIds |->
                 IF t \in sentIds THEN initialDelivered[t] + 1
                 ELSE initialDelivered[t]]
  /\ UNCHANGED <<otherVars, cronResults>>
  /\ UNCHANGED <<now, companyEmail, conversations, followUpsDelivered,
                 cronQueue, svcQueue>>

(* -------------------------- follow-up sweeps --------------------------- *)
\* the row a sweep keeps of a fetched thread: its id and the follow_up_count read
Fetched(t) == [id |-> t, follow_up_count |-> threads[t].follow_up_count]

\* the cron sweep query without the pending filter
CronDueThreads_anyStatus ==
  {t \in ThreadIds : /\ threads[t].next_follow_up # NULL
                     /\ threads[t].next_follow_up <= now
                     /\ threads[t].sent_at # NULL
                     /\ threads[t].follow_up_count < CronMaxFollowUps}

\* cron sweep query: next_follow_up <= now, pending, sent_at not null,
\* follow_up_count < 6
CronDueThreads ==
  {t \in ThreadIds : /\ threads[t].next_follow_up # NULL
                     /\ threads[t].next_follow_up <= now
                     /\ threads[t].conversation_status = "pending"
                     /\ threads[t].sent_at # NULL
                     /\ threads[t].follow_up_count < CronMaxFollowUps}

\* cron sweep: the query; with no row the handler answers 'No follow-ups due'
CronFetch ==
  /\ cronQueue = {}
  /\ cronQueue' = {Fetched(t) : t \in CronDueThreads}
  /\ cronResults' = [sent |-> 0, errors |-> 0]
  /\ UNCHANGED otherVars
  /\ UNCHANGED <<now, companyEmail, campaigns, threads, conversations,
                 initialDelivered, followUpsDelivered, svcQueue>>

\* the thread update both sweeps and the manual handlers issue after a send:
\* follow_up_count and next_follow_up are written from the row read earlier
WriteFollowUp(id, count, next) ==
  /\ threads' = [threads EXCEPT ![id].follow_up_count = count,
                                ![id].next_follow_up = next]
  /\ followUpsDelivered' = [followUpsDelivered EXCEPT ![id] = @ + 1]

\* the loop body with the thread update issued before the send is known to
\* have succeeded
CronProcess_updatesBeforeSend(row, sendOk) ==
  /\ row \in cronQueue
  /\ cronQueue' = cronQueue \ {row}
  /\ \E next \in Cron_calculateNextFollowUp(row.follow_up_count + 1) :
       /\ threads' = [threads EXCEPT ![row.id].follow_up_count = row.follow_up_count + 1,
                                     ![row.id].next_follow_up = next]
       /\ IF sendOk /\ companyEmail[threads[row.id].company_id]
          THEN /\ followUpsDelivered' = [followUpsDelivered EXCEPT ![row.id] = @ + 1]
               /\ cronResults' = [cronResults EXCEPT !.sent = @ + 1]
          ELSE /\ UNCHANGED followUpsDelivered
               /\ cronResults' = [cronResults EXCEPT !.errors = @ + 1]
  /\ UNCHANGED otherVars
  /\ UNCHANGED <<now, companyEmail, campaigns, conversations,
                 initialDelivered, svcQueue>>

\* cron sweep: one iteration of the loop; a failed token refresh or a failed
\* send is counted as an error and the thread is not updated
CronProcess(row, sendOk) ==
  /\ row \in cronQueue
  /\ cronQueue' = cronQueue \ {row}
  /\ IF sendOk /\ companyEmail[threads[row.id].company_id]
     THEN /\ \E next \in Cron_calculateNextFollowUp(row.follow_up_count + 1) :
               WriteFollowUp(row.id, row.follow_up_count + 1, next)
          /\ cronResults' = [cronResults EXCEPT !.sent = @ + 1]
     ELSE /\ UNCHANGED <<threads, followUpsDelivered>>
          /\ cronResults' = [cronResults EXCEPT !.errors = @ + 1]
  /\ UNCHANGED otherVars
  /\ UNCHANGED <<now, companyEmail, campaigns, conversations,
                 initialDelivered, svcQueue>>

\* processFollowUps query: response_received = false, pending, next_follow_up
\* not null and <= now, follow_up_count < 12
ServiceDueThreads ==
  {t \in ThreadIds : /\ threads[t].response_received = FALSE
                     /\ threads[t].conversation_status = "pending"
                     /\ threads[t].next_follow_up # NULL
                     /\ threads[t].next_follow_up <= now
                     /\ threads[t].follow_up_count < ServiceMaxFollowUps}

\* GmailService.processFollowUps: the query
ServiceFetch ==
  /\ svcQueue = {}
  /\ svcQueue' = {Fetched(t) : t \in ServiceDueThreads}
  /\ UNCHANGED <<otherVars, cronResults>>
  /\ UNCHANGED <<now, companyEmail, campaigns, threads, conversations,
                 initialDelivered, followUpsDelivered, cronQueue>>

\* processFollowUps: thread.follow_up_count < 11 ? calculateNextFollowUp() : null
Service_nextFollowUp(follow_up_count) ==
  IF follow_up_count < ServiceLastScheduled THEN Service_calculateNextFollowUp
  ELSE {NULL}

\* GmailService.processFollowUps: one iteration of the loop
ServiceProcess(row, sendOk) ==
  /\ row \in svcQueue
  /\ svcQueue' = svcQueue \ {row}
  /\ IF sendOk /\ companyEmail[threads[row.id].company_id]
     THEN \E next \in Service_nextFollowUp(row.follow_up_count) :
            WriteFollowUp(row.id, row.follow_up_count + 1, next)
     ELSE UNCHANGED <<threads, followUpsDelivered>>
  /\ UNCHANGED <<otherVars, cronResults>>
  /\ UNCHANGED <<now, companyEmail, campaigns, conversations,
                 initialDelivered, cronQueue>>

(* -------------------------- manual follow-up --------------------------- *)
\* the guards of the manual follow-up handlers: the thread exists, is
\* pending and has fewer than 6 follow-ups
ManualFollowUpAllowed(thread_id) ==
  /\ thread_id \in ThreadIds
  /\ threads[thread_id].conversation_status = "pending"
  /\ threads[thread_id].follow_up_count < ManualMaxFollowUps

\* manual follow-up handler (send, then update the thread)
ManualFollowUp(thread_id) ==
  /\ ManualFollowUpAllowed(thread_id)
  /\ companyEmail[threads[thread_id].company_id]
  /\ \E next \in Manual_calculateNextFollowUp(threads[thread_id].follow_up_count + 1) :
       WriteFollowUp(thread_id, threads[thread_id].follow_up_count + 1, next)
  /\ UNCHANGED <<otherVars, cronResults>>
  /\ UNCHANGED <<now, companyEmail, campaigns, conversations,
                 initialDelivered, cronQueue, svcQueue>>

\* api/campaigns/index.ts handleFollowUp
HandleFollowUp(thread_id) ==
  /\ ManualFollowUpAllowed(thread_id)
  /\ companyEmail[threads[thread_id].company_id]
  /\ \E next \in Index_calculateNextFollowUp(threads[thread_id].follow_up_count + 1) :
       WriteFollowUp(thread_id, threads[thread_id].follow_up_count + 1, next)
  /\ UNCHANGED <<otherVars, cronResults>>
  /\ UNCHANGED <<now, companyEmail, campaigns, conversations,
                 initialDelivered, cronQueue, svcQueue>>

(* --------------------------- reply detection --------------------------- *)
\* threads of the company with response_received = false, in a thread table
OpenThreadsIn(th, company) ==
  {t \in DOMAIN th : /\ th[t].company_id = company
                      /\ th[t].response_received = FALSE}

\* threads of the company with response_received = false
OpenThreadsOf(company) == OpenThreadsIn(threads, company)

\* .order('created_at', { ascending: true }).limit(1)
OldestOpenThreadIn(th, company) ==
  CHOOSE t \in OpenThreadsIn(th, company) :
    \A u \in OpenThreadsIn(th, company) :
      \/ th[u].created_at > th[t].created_at
      \/ (th[u].created_at = th[t].created_at /\ u >= t)

\* .order('created_at', { ascending: false }).limit(1): the latest created
\* of the open threads (rows are kept in creation order)
LatestOpenThreadIn(th, company) ==
  CHOOSE t \in OpenThreadsIn(th, company) :
    \A u \in OpenThreadsIn(th, company) :
      \/ th[u].created_at < th[t].created_at
      \/ (th[u].created_at = th[t].created_at /\ u <= t)

\* the thread processIncomingEmail selects for a message of the company
LatestOpenThread(company) == LatestOpenThreadIn(threads, company)

\* processIncomingEmail finds a company for the sender address and an open
\* thread of that company
ReplyMatches(th, company) ==
  /\ company \in Companies
  /\ companyEmail[company]
  /\ OpenThreadsIn(th, company) # {}

\* the thread table after processIncomingEmail for a message of the company
ThreadsAfterReply(th, company) ==
  IF ReplyMatches(th, company)
  THEN [th EXCEPT ![LatestOpenThreadIn(th, company)] =
          [@ EXCEPT !.response_received = TRUE,
                    !.conversation_status = "responded",
                    !.next_follow_up = NULL]]
  ELSE th

\* the conversations table after processIncomingEmail for that message
ConversationsAfterReply(th, conv, company) ==
  IF ReplyMatches(th, company)
  THEN Append(conv, [thread_id |-> LatestOpenThreadIn(th, company),
                     sender |-> "prospect"])
  ELSE conv

\* GmailService.processIncomingEmail for a message whose sender address is
\* the email of the company
ProcessIncomingEmail(company) ==
  /\ ReplyMatches(threads, company)
  /\ threads' = ThreadsAfterReply(threads, company)
  /\ conversations' = ConversationsAfterReply(threads, conversations, company)
  /\ UNCHANGED <<otherVars, cronResults>>
  /\ UNCHANGED <<now, companyEmail, campaigns, initialDelivered,
                 followUpsDelivered, cronQueue, svcQueue>>

(* ------------------------- process-campaigns --------------------------- *)
\* threads the cleanup update matches: created more than 42 days ago,
\* pending, follow_up_count >= 6
OldThreads ==
  {t \in ThreadIds : /\ threads[t].created_at < now - ThreadMaxAgeDays
                     /\ threads[t].conversation_status = "pending"
                     /\ threads[t].follow_up_count >= CleanupMinFollowUps}

\* the status the cleanup update writes
CleanupStatus == "completed"

\* campaigns the archive step closes: active, with at least one thread
\* (email_threads!inner), created more than 56 days ago
AgedCampaigns ==
  {c \in CampaignIds : /\ campaigns[c].status = "active"
                       /\ \E t \in ThreadIds : threads[t].campaign_id = c
                       /\ campaigns[c].created_at < now - CampaignMaxAgeDays}

\* the thread table after the cleanup update: one statement, which the store
\* rejects as a whole when the new status fails the column's CHECK
ThreadsAfterCleanup ==
  [t \in ThreadIds |->
     IF t \in OldThreads /\ CleanupStatus \in ThreadStatusAccepted
     THEN [threads[t] EXCEPT !.conversation_status = CleanupStatus]
     ELSE threads[t]]

\* the campaign table after the archive step
CampaignsAfterArchive ==
  [c \in CampaignIds |->
     IF c \in AgedCampaigns THEN [campaigns[c] EXCEPT !.status = "completed"]
     ELSE campaigns[c]]

\* cron/process-campaigns handler; its upsert into analytics names the columns
\* emails_sent, responses_received, bounces and updated_at, which the table
\* does not have, and no metric_name or value, so the store rejects it (the
\* error is not looked at) and the analytics rows stay as they were
ProcessCampaigns ==
  /\ threads' = ThreadsAfterCleanup
  /\ campaigns' = CampaignsAfterArchive
  /\ UNCHANGED <<otherVars, cronResults>>
  /\ UNCHANGED <<now, companyEmail, conversations, initialDelivered,
                 followUpsDelivered, cronQueue, svcQueue>>

(* ------------------------------- cache --------------------------------- *)
\* .eq('business_key', cacheKey).eq('cache_type', cacheType), over a table
RowsIn(c, cacheKey, cacheType) ==
  {row \in c : row.business_key = cacheKey /\ row.cache_type = cacheType}

\* .eq('business_key', cacheKey).eq('cache_type', cacheType)
CacheRows(cacheKey, cacheType) == RowsIn(cache, cacheKey, cacheType)

\* what getCachedData returns to its caller, and whether the cache operation
\* before it was a get of the same key and category
Returned(cacheKey, cacheType, payload, expired) ==
  [called |-> TRUE, key |-> cacheKey, type |-> cacheType, payload |-> payload,
   at |-> now, expired |-> expired,
   repeated |-> /\ cacheReturned.called
                /\ cacheReturned.key = cacheKey
                /\ cacheReturned.type = cacheType]

\* getCachedData over the table c: .single() yields an error unless exactly
\* one row matches, and an error of the store (ok = FALSE) is returned the
\* same way: null is returned; an expired row is deleted and null is returned
getCachedData(c, cacheKey, cacheType, ok) ==
  LET rows == RowsIn(c, cacheKey, cacheType)
  IN IF ~ok \/ Cardinality(rows) # 1
     THEN [hit |-> FALSE, data |-> NULL, cache |-> c, expired |-> FALSE]
     ELSE LET data == CHOOSE row \in rows : TRUE
          IN IF now > data.expires_at
             THEN [hit |-> FALSE, data |-> NULL, cache |-> c \ rows,
                   expired |-> TRUE]
             ELSE [hit |-> TRUE, data |-> data.cached_data, cache |-> c,
                   expired |-> FALSE]

\* getCachedData without the expiry check
GetCachedData_noExpiryCheck(cacheKey, cacheType) ==
  /\ LET rows == CacheRows(cacheKey, cacheType)
     IN IF Cardinality(rows) # 1
        THEN /\ cacheReturned' = Returned(cacheKey, cacheType, NULL, FALSE)
             /\ cache' = cache
        ELSE LET data == CHOOSE row \in rows : TRUE
             IN /\ cacheReturned' =
                     Returned(cacheKey, cacheType, data.cached_data, FALSE)
                /\ cache' = cache
  /\ UNCHANGED tableVars

\* getCachedData that deletes the row it returns
GetCachedData_deletesOnHit(cacheKey, cacheType) ==
  /\ LET got == getCachedData(cache, cacheKey, cacheType, TRUE)
     IN /\ cacheReturned' = Returned(cacheKey, cacheType, got.data, got.expired)
        /\ cache' = cache \ CacheRows(cacheKey, cacheType)
  /\ UNCHANGED tableVars

\* a call of getCachedData that the store answers
GetCachedData(cacheKey, cacheType) ==
  /\ LET got == getCachedData(cache, cacheKey, cacheType, TRUE)
     IN /\ cacheReturned' = Returned(cacheKey, cacheType, got.data, got.expired)
        /\ cache' = got.cache
  /\ UNCHANGED tableVars

\* getCachedData followed step by step: the select and the expiry check of a
\* call that finds its row expired
GetCachedDataSelect(cacheKey, cacheType) ==
  /\ <<cacheKey, cacheType>> \notin expiredReads
  /\ getCachedData(cache, cacheKey, cacheType, TRUE).expired
  /\ expiredReads' = expiredReads \cup {<<cacheKey, cacheType>>}
  /\ UNCHANGED <<cache, cacheReturned>>
  /\ UNCHANGED <<now, companyEmail, campaigns, threads, conversations,
                 initialDelivered, followUpsDelivered, cronQueue, svcQueue,
                 accountStatus, cronResults, dataVars, subjectThread,
                 sentSubject, startFetched>>

\* the rest of that call: the delete by (business_key, cache_type) and the
\* return of null
GetCachedDataDelete(cacheKey, cacheType) ==
  /\ <<cacheKey, cacheType>> \in expiredReads
  /\ expiredReads' = expiredReads \ {<<cacheKey, cacheType>>}
  /\ cache' = cache \ CacheRows(cacheKey, cacheType)
  /\ cacheReturned' = Returned(cacheKey, cacheType, NULL, TRUE)
  /\ UNCHANGED <<now, companyEmail, campaigns, threads, conversations,
                 initialDelivered, followUpsDelivered, cronQueue, svcQueue,
                 accountStatus, cronResults, dataVars, subjectThread,
                 sentSubject, startFetched>>

\* the table after an upsert of the row of (business_key, cache_type):
\* created_at is not among the columns the upsert carries, so an existing row
\* keeps its own and a new row gets the time of the insert
UpsertCacheRow(c, new) ==
  LET old == RowsIn(c, new.business_key, new.cache_type)
  IN IF old = {}
     THEN c \cup {[business_key |-> new.business_key, cache_type |-> new.cache_type,
                   cached_data |-> new.cached_data, expires_at |-> new.expires_at,
                   created_at |-> now]}
     ELSE (c \ old) \cup
            {[business_key |-> new.business_key, cache_type |-> new.cache_type,
              cached_data |-> new.cached_data, expires_at |-> new.expires_at,
              created_at |-> row.created_at] : row \in old}

\* setCachedData that leaves the expiry of an existing row as it was
setCachedData_keepsExpiry(c, cacheKey, data, cacheType, daysToExpire, ok) ==
  LET old == RowsIn(c, cacheKey, cacheType)
  IN IF ~ok THEN c
     ELSE UpsertCacheRow(c, [business_key |-> cacheKey, cached_data |-> data,
                             cache_type |-> cacheType,
                             expires_at |-> IF old = {} THEN now + daysToExpire
                                            ELSE (CHOOSE row \in old : TRUE).expires_at])

\* setCachedData over the table c: expires_at = now + daysToExpire; an error
\* of the store (ok = FALSE) is not looked at and the table stays as it was
setCachedData(c, cacheKey, data, cacheType, daysToExpire, ok) ==
  IF ~ok THEN c
  ELSE UpsertCacheRow(c, [business_key |-> cacheKey, cached_data |-> data,
                          cache_type |-> cacheType,
                          expires_at |-> now + daysToExpire])

\* a call of setCachedData that the store answers
SetCachedData(cacheKey, data, cacheType, daysToExpire) ==
  /\ cache' = setCachedData(cache, cacheKey, data, cacheType, daysToExpire, TRUE)
  /\ cacheReturned' = NoCall
  /\ UNCHANGED tableVars

\* the rows the sweep counts and deletes: .lt('expires_at', now)
ExpiredEntries(c) == {row \in c : row.expires_at < now}

\* .lt('created_at', ninetyDaysAgo)
OldEntries(c) == {row \in c : row.created_at < now - RetentionDays}

\* the table after a run of the cleanup-cache handler: an error of the select
\* or of the delete of the expired rows is thrown and ends the run with a 500
\* response; an error of the delete of the old rows is only logged
CacheAfterCleanup(c, selectOk, deleteOk, oldDeleteOk) ==
  IF ~selectOk
  THEN c
  ELSE IF ExpiredEntries(c) # {} /\ ~deleteOk
       THEN c
       ELSE LET live == c \ ExpiredEntries(c)
            IN IF oldDeleteOk THEN live \ OldEntries(live) ELSE live

\* a run of the cleanup-cache cron handler
CleanupCache(selectOk, deleteOk, oldDeleteOk) ==
  /\ cache' = CacheAfterCleanup(cache, selectOk, deleteOk, oldDeleteOk)
  /\ cacheReturned' = NoCall
  /\ UNCHANGED tableVars

(* ------------------------------- scrape -------------------------------- *)
\* the upper-case letters of the names and locations, with their lower case
LowerCaseOf == [ch \in {"A", "B", "T", "X"} |->
                  CASE ch = "A" -> "a" [] ch = "B" -> "b"
                    [] ch = "T" -> "t" [] ch = "X" -> "x"]

\* String.prototype.toLowerCase, on a string given as its characters
toLowerCase(str) ==
  [i \in 1..Len(str) |->
     IF str[i] \in DOMAIN LowerCaseOf THEN LowerCaseOf[str[i]] ELSE str[i]]

\* the character class [a-z0-9], for the characters of the names
IsAlphaNumeric(ch) == ch \in {"a", "b", "t", "x"}

\* .replace(/[^a-z0-9]/g, '')
StripNonAlphaNumeric(str) == SelectSeq(str, IsAlphaNumeric)

\* sha256 of the input, taken to have no collisions
generateCacheKey(input) == [sha256 |-> input]

\* generateCacheKey(`directory_${location}_${business_type}_${source}`)
DirectoryKey(location, business_type, source) ==
  generateCacheKey(<<"directory_">> \o location \o <<"_">> \o business_type
                     \o <<"_">> \o source)

\* generateCacheKey(`business_${name}_${location}`.toLowerCase())
BusinessKey(name, location) ==
  generateCacheKey(toLowerCase(<<"business_">> \o name \o <<"_">> \o location))

\* generateCacheKey(`email_${website}`)
EmailKey(website) == generateCacheKey(<<"email_", website>>)

\* deduplicateBusinesses' key: `${normalizedName}_${business.website || ''}`
DuplicateKey(business) ==
  StripNonAlphaNumeric(toLowerCase(business.name)) \o <<"_", business.website>>

\* deduplicateBusinesses: the named businesses whose key no named business
\* before them in the listing has
deduplicateBusinesses(businesses) ==
  LET indexed == [i \in 1..Len(businesses) |-> [i |-> i, business |-> businesses[i]]]
      Unseen(e) ==
        /\ e.business.name # <<>>
        /\ \A j \in 1..(e.i - 1) :
             \/ businesses[j].name = <<>>
             \/ DuplicateKey(businesses[j]) # DuplicateKey(e.business)
      kept == SelectSeq(indexed, Unseen)
  IN [i \in 1..Len(kept) |-> kept[i].business]

\* the request's location, business_type and source
Location == <<"T", "X">>
BusinessType == <<"bakery">>
Source == <<"yelp">>

\* the businesses the directory source lists: one name in two spellings on
\* two websites, and in another spacing in an entry without website ("")
Ab == [name |-> <<"A", "b">>, website |-> "w1"]
ab == [name |-> <<"a", "b">>, website |-> "w2"]
a_b == [name |-> <<"a", " ", "b">>, website |-> ""]

\* what scrapeBusinessDirectory can return: [] when the source fails, an
\* entry alone, twice, and beside each of the other two
Listings == {<<>>, <<Ab>>, <<Ab, Ab>>, <<Ab, ab>>, <<Ab, a_b>>}

\* what extractEmailsMultiPage finds on a website: an email or none, and the
\* length of the page content
SiteResult(website) ==
  IF website = "w1" THEN [email |-> 1, content |-> 60]
                    ELSE [email |-> NULL, content |-> 10]

\* extractEmailFromWebsite over the table c: the cached result, or the result
\* of the extraction, cached for 30 days; { email: null, content: '' } when
\* the extraction throws
extractEmailFromWebsite(c, website, in) ==
  LET cached == getCachedData(c, EmailKey(website), "email_extraction", in.readOk)
  IN IF cached.hit
     THEN [cache |-> cached.cache, result |-> cached.data]
     ELSE IF ~in.extractOk
          THEN [cache |-> cached.cache, result |-> [email |-> NULL, content |-> 0]]
          ELSE [cache |-> setCachedData(cached.cache, EmailKey(website),
                                        SiteResult(website), "email_extraction",
                                        ExtractionCacheDays, in.writeOk),
                result |-> SiteResult(website)]

\* the row saveCompanyWithRetry's upsert inserts: the upsert carries no id, so
\* the row is a new one
NewCompany(rows, business, emailData) ==
  [id |-> Len(rows) + 1, name |-> business.name, website |-> business.website,
   email |-> emailData.email, scraped_content |-> emailData.content,
   scraped_at |-> now, enriched_data |-> NULL, enriched_at |-> NULL]

\* what the loop of the handler records for one business
Outcome(business, location, fromCache, extracted, saved, company) ==
  [name |-> business.name, key |-> BusinessKey(business.name, location),
   fromCache |-> fromCache, extracted |-> extracted, saved |-> saved,
   company |-> company]

\* one pass of the handler's loop that saves the business without looking in
\* the cache for it
ProcessBusiness_noDuplicateCheck(st, business, location, extract_emails, in) ==
  LET extracted == extract_emails /\ business.website # ""
      emailData == IF extracted
                   THEN extractEmailFromWebsite(st.cache, business.website, in)
                   ELSE [cache |-> st.cache,
                         result |-> [email |-> NULL, content |-> NULL]]
      savedCompany == NewCompany(st.rows, business, emailData.result)
  IN IF in.saveOk
     THEN [cache |-> setCachedData(emailData.cache,
                                   BusinessKey(business.name, location),
                                   savedCompany, "business_data",
                                   ExtractionCacheDays, in.writeOk),
           rows |-> Append(st.rows, savedCompany),
           outcomes |-> Append(st.outcomes,
                               Outcome(business, location, FALSE, extracted,
                                       TRUE, <<savedCompany>>))]
     ELSE [cache |-> emailData.cache, rows |-> st.rows,
           outcomes |-> Append(st.outcomes,
                               Outcome(business, location, FALSE, extracted,
                                       FALSE, <<>>))]

\* one pass of the handler's loop: checkBusinessDuplicate, and on a miss the
\* email extraction, saveCompanyWithRetry and cacheBusinessData
ProcessBusiness(st, business, location, extract_emails, in) ==
  LET cachedBusiness == getCachedData(st.cache, BusinessKey(business.name, location),
                                      "business_data", in.readOk)
  IN IF cachedBusiness.hit
     THEN [cache |-> cachedBusiness.cache, rows |-> st.rows,
           outcomes |-> Append(st.outcomes,
                               Outcome(business, location, TRUE, FALSE, FALSE,
                                       <<cachedBusiness.data>>))]
     ELSE ProcessBusiness_noDuplicateCheck(
            [cache |-> cachedBusiness.cache, rows |-> st.rows,
             outcomes |-> st.outcomes],
            business, location, extract_emails, in)

\* scrapeBusinessDirectory: the parsed listing, or the empty array its catch
\* block leaves when the request to the source fails
scrapeBusinessDirectory(in) ==
  IF in.directoryOk THEN in.listing ELSE <<>>

\* the handler of POST /api/scrape/businesses over the tables c and rows: the
\* directory listing from the cache or from the source, cached for 7 days,
\* then the loop over the deduplicated businesses
scrapeBusinesses(c, rows, location, extract_emails, in) ==
  LET directoryKey == DirectoryKey(location, BusinessType, Source)
      cached == getCachedData(c, directoryKey, "business_data", in.readOk)
      businesses == IF cached.hit THEN cached.data
                    ELSE scrapeBusinessDirectory(in)
      start == IF cached.hit
               THEN cached.cache
               ELSE setCachedData(cached.cache, directoryKey, businesses,
                                  "business_data", DirectoryCacheDays, in.writeOk)
      processedBusinesses == deduplicateBusinesses(businesses)
      loop[i \in 0..Len(processedBusinesses)] ==
        IF i = 0
        THEN [cache |-> start, rows |-> rows, outcomes |-> <<>>]
        ELSE ProcessBusiness(loop[i - 1], processedBusinesses[i], location,
                             extract_emails, in)
      end == loop[Len(processedBusinesses)]
  IN [cache |-> end.cache, rows |-> end.rows, directoryCalled |-> ~cached.hit,
      directoryFailed |-> ~cached.hit /\ ~in.directoryOk,
      outcomes |-> end.outcomes]

\* what the directory source returns and which calls, if any, fail during one
\* request: the reads of the cache, its writes, the saves or the extractions
ScrapeInputs ==
  {in \in [listing : Listings, directoryOk : {TRUE}, readOk : BOOLEAN,
           writeOk : BOOLEAN, saveOk : BOOLEAN, extractOk : BOOLEAN] :
     Cardinality({ok \in {"read", "write", "save", "extract"} :
                    \/ ok = "read" /\ ~in.readOk
                    \/ ok = "write" /\ ~in.writeOk
                    \/ ok = "save" /\ ~in.saveOk
                    \/ ok = "extract" /\ ~in.extractOk}) <= 1}

\* the inputs of a request during which no call fails
AnsweredInputs ==
  {in \in ScrapeInputs : in.readOk /\ in.writeOk /\ in.saveOk /\ in.extractOk}

\* the inputs of a request during which no call fails, or only the request
\* to the directory source
DirectoryInputs ==
  AnsweredInputs
    \cup {[in EXCEPT !.directoryOk = FALSE] :
            in \in {a \in AnsweredInputs : a.listing = <<>>}}

\* a request POST /api/scrape/businesses
ScrapeBusinesses(location, extract_emails, in) ==
  \E run \in {scrapeBusinesses(cache, companyRows, location, extract_emails, in)} :
     /\ Len(run.rows) <= MaxCompanyRows
     /\ cache' = run.cache
     /\ companyRows' = run.rows
     /\ lastScrape' = [called |-> TRUE, at |-> now,
                       directoryCalled |-> run.directoryCalled,
                       directoryFailed |-> run.directoryFailed,
                       outcomes |-> run.outcomes]
     /\ savedLog' = savedLog \cup
                      {[key |-> run.outcomes[i].key, at |-> now,
                        company |-> run.outcomes[i].company[1]] :
                         i \in {j \in 1..Len(run.outcomes) : run.outcomes[j].saved}}
     /\ cacheReturned' = NoCall
     /\ UNCHANGED <<now, companyEmail, campaigns, threads, conversations,
                    initialDelivered, followUpsDelivered, cronQueue, svcQueue,
                    accountStatus, cronResults, enrichmentCache, lastEnrich,
                    dailyAnalytics,
                    flightVars>>

\* days pass between two requests
Wait(days) ==
  /\ now + days <= MaxScrapeTime
  /\ now' = now + days
  /\ UNCHANGED <<otherVars, cronResults>>
  /\ UNCHANGED <<companyEmail, campaigns, threads, conversations,
                 initialDelivered, followUpsDelivered, cronQueue, svcQueue>>

(* ----------------------------- enrichment ------------------------------ *)
\* .not('scraped_content', 'is', null).is('enriched_data', null)
\* .not('email', 'is', null)
NeedsEnrichment(rows) ==
  {id \in DOMAIN rows : /\ rows[id].scraped_content # NULL
                        /\ rows[id].enriched_data = NULL
                        /\ rows[id].email # NULL}

\* createHash('sha256').update(website).digest('hex')
websiteHash(website) == [sha256 |-> <<website>>]

\* getCachedEnrichment: null without website, and unless .single() finds
\* exactly one row of the hash
getCachedEnrichment(ec, website) ==
  LET found == {row \in ec : row.website_hash = websiteHash(website)}
  IN IF website = "" \/ Cardinality(found) # 1
     THEN [hit |-> FALSE, data |-> NULL]
     ELSE [hit |-> TRUE, data |-> (CHOOSE row \in found : TRUE).enriched_data]

\* cacheEnrichment: the upsert carries no id, so it is an insert, which
\* website_hash UNIQUE rejects when the hash is there; the error is not looked at
cacheEnrichment(ec, website, enrichedData) ==
  IF website = "" \/ \E row \in ec : row.website_hash = websiteHash(website)
  THEN ec
  ELSE ec \cup {[website_hash |-> websiteHash(website),
                 enriched_data |-> enrichedData]}

\* (company.scraped_content || '').length, of the content the text parses to
ContentLength(company) ==
  IF company.scraped_content = NULL THEN 0 ELSE company.scraped_content

\* enrichSingleCompany in the service, and the same steps in the loop of the
\* enrich/companies handler: no call of the language model for content
\* shorter than 50; the profile is derived from the company's content, and is
\* null when the call fails or its answer does not parse
enrichSingleCompany(company, modelOk) ==
  IF ContentLength(company) < MinContentLength
  THEN [data |-> NULL, called |-> FALSE]
  ELSE [data |-> IF modelOk THEN company.id ELSE NULL, called |-> TRUE]

\* updateCompanyWithEnrichment: .update({ enriched_data, enriched_at }).eq('id')
updateCompanyWithEnrichment(rows, companyId, enrichedData) ==
  [rows EXCEPT ![companyId].enriched_data = enrichedData,
               ![companyId].enriched_at = now]

\* one pass of processBatch's loop: the cached profile of the website if
\* there is one, else enrichSingleCompany and, for a profile, the update of
\* the company and cacheEnrichment
ProcessBatchCompany(st, company, modelOk) ==
  LET cachedData == getCachedEnrichment(st.ec, company.website)
      enriched == enrichSingleCompany(company, modelOk)
  IN IF cachedData.hit
     THEN [st EXCEPT !.rows = updateCompanyWithEnrichment(st.rows, company.id,
                                                          cachedData.data),
                     !.cachedBefore = st.cachedBefore \cup {company.id}]
     ELSE IF enriched.data # NULL
          THEN [st EXCEPT
                  !.rows = updateCompanyWithEnrichment(st.rows, company.id,
                                                       enriched.data),
                  !.ec = cacheEnrichment(st.ec, company.website, enriched.data),
                  !.modelCalls = st.modelCalls \cup {company.id}]
          ELSE [st EXCEPT
                  !.modelCalls = st.modelCalls \cup
                                   (IF enriched.called THEN {company.id} ELSE {})]

\* the ids of a set of companies, in ascending order
InOrder(ids) ==
  LET place(id) == Cardinality({other \in ids : other <= id})
  IN [i \in 1..Cardinality(ids) |-> CHOOSE id \in ids : place(id) = i]

\* what .limit(batchSize) can leave of the selected companies
Limited(ids, batchSize) ==
  {batch \in SUBSET ids :
     Cardinality(batch) = IF Cardinality(ids) < batchSize THEN Cardinality(ids)
                          ELSE batchSize}

\* processBatch over the selected companies, as the select returned them
processBatch(rows, ec, batch, modelOk) ==
  LET companies == InOrder(batch)
      loop[i \in 0..Len(companies)] ==
        IF i = 0
        THEN [rows |-> rows, ec |-> ec, modelCalls |-> {}, cachedBefore |-> {}]
        ELSE ProcessBatchCompany(loop[i - 1], rows[companies[i]], modelOk)
  IN loop[Len(companies)]

\* DataEnrichmentService.enrichCompanyData
EnrichCompanyData(batchSize, modelOk) ==
  \E batch \in Limited(NeedsEnrichment(companyRows), batchSize) :
    \E done \in {processBatch(companyRows, enrichmentCache, batch, modelOk)} :
      /\ companyRows' = done.rows
      /\ enrichmentCache' = done.ec
      /\ lastEnrich' = [called |-> TRUE, modelCalls |-> done.modelCalls,
                        cachedBefore |-> done.cachedBefore]
      /\ UNCHANGED <<now, companyEmail, campaigns, threads, conversations,
                     initialDelivered, followUpsDelivered, cronQueue, svcQueue,
                     accountStatus, cache, cacheReturned, cronResults, savedLog,
                     lastScrape, dailyAnalytics,
                     flightVars>>

\* the companies of a request whose website has a profile in the cache
WithCachedProfile(ids) ==
  {id \in ids : getCachedEnrichment(enrichmentCache, companyRows[id].website).hit}

\* DataEnrichmentService.enrichSpecificCompany: 'Company not found' unless the
\* row exists; enrichSingleCompany and, for a profile, the update
EnrichSpecificCompany(companyId, modelOk) ==
  /\ companyId \in DOMAIN companyRows
  /\ LET enriched == enrichSingleCompany(companyRows[companyId], modelOk)
     IN /\ companyRows' = IF enriched.data # NULL
                          THEN updateCompanyWithEnrichment(companyRows, companyId,
                                                           enriched.data)
                          ELSE companyRows
        /\ lastEnrich' = [called |-> TRUE,
                          modelCalls |-> IF enriched.called THEN {companyId} ELSE {},
                          cachedBefore |-> WithCachedProfile({companyId})]
  /\ UNCHANGED <<now, companyEmail, campaigns, threads, conversations,
                 initialDelivered, followUpsDelivered, cronQueue, svcQueue,
                 accountStatus, cache, cacheReturned, cronResults, savedLog,
                 lastScrape, enrichmentCache, dailyAnalytics,
                 flightVars>>

\* the companies the enrich/companies handler selects: the one of company_id
\* if it needs enrichment, else batch_size of those that do
HandlerSelected(company_id, batch_size) ==
  IF company_id # NULL
  THEN {NeedsEnrichment(companyRows) \cap {company_id}}
  ELSE Limited(NeedsEnrichment(companyRows), batch_size)

\* the handler of POST /api/enrich/companies: for every selected company with
\* content of 50 characters or more a call of the language model and, for a
\* profile, the update of the company
EnrichCompaniesHandler(company_id, batch_size, modelOk) ==
  \E batch \in HandlerSelected(company_id, batch_size) :
    LET called == {id \in batch :
                     enrichSingleCompany(companyRows[id], modelOk).called}
    IN /\ companyRows' =
            [id \in DOMAIN companyRows |->
               IF id \in called /\ modelOk
               THEN [companyRows[id] EXCEPT !.enriched_data = id,
                                            !.enriched_at = now]
               ELSE companyRows[id]]
       /\ lastEnrich' = [called |-> TRUE, modelCalls |-> called,
                         cachedBefore |-> WithCachedProfile(batch)]
       /\ UNCHANGED <<now, companyEmail, campaigns, threads, conversations,
                      initialDelivered, followUpsDelivered, cronQueue, svcQueue,
                      accountStatus, cache, cacheReturned, cronResults, savedLog,
                      lastScrape, enrichmentCache, dailyAnalytics,
                      flightVars>>

\* the rows scraping can have left in the companies table: with or without
\* website and email, and with no content, a short page or a long one
ScrapedRows ==
  [id : {0}, name : {<<"A", "b">>}, website : {"w1", "w2", ""},
   email : {NULL, 1}, scraped_content : {NULL, 10, 60}, scraped_at : {0},
   enriched_data : {NULL}, enriched_at : {NULL}]

\* the tables before the first enrichment request: scraped companies, none
\* enriched, and an empty enrichment cache
InitEnrich ==
  /\ now = 0
  /\ companyEmail = [c \in Companies |-> c % 2 = 1]
  /\ campaigns = <<>>
  /\ threads = <<>>
  /\ conversations = <<>>
  /\ initialDelivered = <<>>
  /\ followUpsDelivered = <<>>
  /\ cronQueue = {}
  /\ svcQueue = {}
  /\ accountStatus = "active"
  /\ cache = {}
  /\ cacheReturned = NoCall
  /\ cronResults = [sent |-> 0, errors |-> 0]
  /\ companyRows \in {[id \in 1..MaxCompanyRows |-> [row[id] EXCEPT !.id = id]] :
                        row \in [1..MaxCompanyRows -> ScrapedRows]}
  /\ savedLog = {}
  /\ lastScrape = NoScrape
  /\ enrichmentCache = {}
  /\ lastEnrich = NoEnrich
  /\ dailyAnalytics = <<>>
  /\ subjectThread = PlainThread
  /\ sentSubject = NoSubject
  /\ startFetched = [r \in 1..MaxStartRequests |-> NoStart]
  /\ expiredReads = {}

(* ------------------------------ analytics ------------------------------ *)
\* the metric names generateDailyAnalytics writes
CompanyMetrics == {"daily_companies_scraped", "daily_companies_enriched",
                   "total_companies_with_emails"}
ThreadMetrics == {"daily_emails_sent", "daily_email_responses"}

\* the value generateDailyAnalytics computes for a metric: today is the day
\* of now, and the companies are those of the campaigns and those scraped
MetricValue(metric_name) ==
  CASE metric_name = "daily_companies_scraped" ->
         Cardinality({id \in DOMAIN companyRows : companyRows[id].scraped_at = now})
    [] metric_name = "daily_companies_enriched" ->
         Cardinality({id \in DOMAIN companyRows : companyRows[id].enriched_at = now})
    [] metric_name = "total_companies_with_emails" ->
         Cardinality({c \in Companies : companyEmail[c]}) +
         Cardinality({id \in DOMAIN companyRows : companyRows[id].email # NULL})
    [] metric_name = "daily_emails_sent" ->
         Cardinality({t \in ThreadIds : threads[t].sent_at = now})
    [] metric_name = "daily_email_responses" ->
         Cardinality({t \in ThreadIds : /\ threads[t].response_received
                                        /\ threads[t].sent_at = now})

\* the rows of one insert, in the order of the array
MetricRows(names) ==
  [i \in 1..Len(names) |->
     [metric_name |-> names[i], value |-> MetricValue(names[i]), date |-> now]]

\* the metrics table after generateDailyAnalytics: .insert(analytics) for the
\* three company metrics, then for the two thread metrics
AnalyticsAfterDaily(rows) ==
  rows \o MetricRows(<<"daily_companies_scraped", "daily_companies_enriched",
                       "total_companies_with_emails">>)
       \o MetricRows(<<"daily_emails_sent", "daily_email_responses">>)

\* CronScheduler.generateDailyAnalytics
GenerateDailyAnalytics ==
  /\ Len(AnalyticsAfterDaily(dailyAnalytics)) <= MaxAnalyticsRows
  /\ dailyAnalytics' = AnalyticsAfterDaily(dailyAnalytics)
  /\ UNCHANGED <<now, companyEmail, campaigns, threads, conversations,
                 initialDelivered, followUpsDelivered, cronQueue, svcQueue,
                 accountStatus, cache, cacheReturned, cronResults, companyRows,
                 savedLog, lastScrape, enrichmentCache, lastEnrich,
                 flightVars>>

(* ------------------------- follow-up subjects -------------------------- *)
\* a subject is the sequence of its parts: follow-up prefixes, each with the
\* blanks after it, and the rest of the line as one part

\* cron sweep and manual handler: the prefixes object, by follow-up number
Cron_prefixes == <<"Re:", "Following up:", "Final follow-up:", "Checking in:",
                   "Quick question:", "Last note:">>

\* campaigns/index.ts: the prefixes object, by follow-up number
Index_prefixes == <<"Re:", "Following up:", "Final follow-up:">>

\* what /^(Re:|Following up:|...)\s*/i matches at the start of a subject:
\* the prefixes and, by the /i flag, their other spellings, of which the
\* subjects have "RE:"
Matched(prefixes) ==
  UNION {IF prefixes[i] = "Re:" THEN {"Re:", "RE:"} ELSE {prefixes[i]} :
           i \in DOMAIN prefixes}

\* originalSubject.replace(/^(...)\s*/i, ''): the first match is removed
replaceLeading(prefixes, originalSubject) ==
  IF originalSubject # <<>> /\ Head(originalSubject) \in Matched(prefixes)
  THEN Tail(originalSubject)
  ELSE originalSubject

\* prefixes[followUpNumber] || 'Re: '
PrefixFor(prefixes, followUpNumber) ==
  IF followUpNumber \in DOMAIN prefixes THEN prefixes[followUpNumber]
  ELSE "Re:"

\* cron sweep: generateFollowUpSubject
Cron_generateFollowUpSubject(followUpNumber, originalSubject) ==
  <<PrefixFor(Cron_prefixes, followUpNumber)>>
    \o replaceLeading(Cron_prefixes, originalSubject)

\* manual follow-up handler: generateFollowUpSubject
Manual_generateFollowUpSubject(followUpNumber, originalSubject) ==
  <<PrefixFor(Cron_prefixes, followUpNumber)>>
    \o replaceLeading(Cron_prefixes, originalSubject)

\* campaigns/index.ts: generateFollowUpSubject
Index_generateFollowUpSubject(followUpNumber, originalSubject) ==
  <<PrefixFor(Index_prefixes, followUpNumber)>>
    \o replaceLeading(Index_prefixes, originalSubject)

\* processFollowUps: `Re: ${thread.subject}`
Service_followUpSubject(originalSubject) == <<"Re:">> \o originalSubject

\* template.subject of the create requests (required, free text): some
\* follow-up prefixes, in any spelling the patterns match, and a text
Subjects ==
  {leading \o <<"Hello">> :
     leading \in UNION {[1..n -> Matched(Cron_prefixes)] :
                          n \in 0..MaxSubjectPrefixes}}

\* a follow-up of the followed thread on one send path: the Subject header
\* of the email and the follow_up_count the path then writes
SendFollowUpSubject(path, subject) ==
  /\ sentSubject' = [sent |-> TRUE, path |-> path,
                     number |-> subjectThread.follow_up_count + 1,
                     subject |-> subject]
  /\ subjectThread' = [subjectThread EXCEPT !.follow_up_count = @ + 1]
  /\ UNCHANGED <<now, companyEmail, campaigns, threads, conversations,
                 initialDelivered, followUpsDelivered, cronQueue, svcQueue,
                 accountStatus, cache, cacheReturned, cronResults, dataVars,
                 startFetched, expiredReads>>

\* cron sweep: a follow-up of the followed thread
CronFollowUpSubject ==
  /\ subjectThread.follow_up_count < CronMaxFollowUps
  /\ SendFollowUpSubject("cron",
       Cron_generateFollowUpSubject(subjectThread.follow_up_count + 1,
                                    subjectThread.subject))

\* manual follow-up handler: a follow-up of the followed thread
ManualFollowUpSubject ==
  /\ subjectThread.follow_up_count < ManualMaxFollowUps
  /\ SendFollowUpSubject("manual",
       Manual_generateFollowUpSubject(subjectThread.follow_up_count + 1,
                                      subjectThread.subject))

\* campaigns/index.ts handleFollowUp: a follow-up of the followed thread
HandleFollowUpSubject ==
  /\ subjectThread.follow_up_count < ManualMaxFollowUps
  /\ SendFollowUpSubject("index",
       Index_generateFollowUpSubject(subjectThread.follow_up_count + 1,
                                     subjectThread.subject))

\* processFollowUps: a follow-up of the followed thread
ServiceFollowUpSubject ==
  /\ subjectThread.follow_up_count < ServiceMaxFollowUps
  /\ SendFollowUpSubject("service",
       Service_followUpSubject(subjectThread.subject))

\* a thread just created from a template with any of the subjects
InitSubject ==
  /\ now = 0
  /\ companyEmail = [c \in Companies |-> TRUE]
  /\ campaigns = <<>>
  /\ threads = <<>>
  /\ conversations = <<>>
  /\ initialDelivered = <<>>
  /\ followUpsDelivered = <<>>
  /\ cronQueue = {}
  /\ svcQueue = {}
  /\ accountStatus = "active"
  /\ cache = {}
  /\ cacheReturned = NoCall
  /\ cronResults = [sent |-> 0, errors |-> 0]
  /\ companyRows = <<>>
  /\ savedLog = {}
  /\ lastScrape = NoScrape
  /\ enrichmentCache = {}
  /\ lastEnrich = NoEnrich
  /\ dailyAnalytics = <<>>
  /\ subjectThread \in [subject : Subjects, follow_up_count : {0}]
  /\ sentSubject = NoSubject
  /\ startFetched = [r \in 1..MaxStartRequests |-> NoStart]
  /\ expiredReads = {}

\* a day passes
Tick ==
  /\ now < MaxTime
  /\ now' = now + 1
  /\ UNCHANGED <<otherVars, cronResults>>
  /\ UNCHANGED <<companyEmail, campaigns, threads, conversations,
                 initialDelivered, followUpsDelivered, cronQueue, svcQueue>>

\* weeks pass with no operation, once, after the days of activity
Elapse(days) ==
  /\ now <= MaxTime
  /\ now + days <= MaxElapsedTime
  /\ now' = now + days
  /\ UNCHANGED <<otherVars, cronResults>>
  /\ UNCHANGED <<companyEmail, campaigns, threads, conversations,
                 initialDelivered, followUpsDelivered, cronQueue, svcQueue>>

\* a day passes, for ever: the clock counts up to LiveWindow days and from
\* then on the stored timestamps are kept relative to the current day, each
\* one day further in the past (days more than LiveWindow ago kept as one)
Advance ==
  /\ LET ShiftDay(d) == IF d = NULL \/ d = 0 THEN d ELSE d - 1
     IN
     IF now < LiveWindow
     THEN /\ now' = now + 1
          /\ UNCHANGED <<campaigns, threads>>
     ELSE /\ now' = now
          /\ threads' = [t \in ThreadIds |->
               [threads[t] EXCEPT !.sent_at = ShiftDay(@),
                                  !.next_follow_up = ShiftDay(@),
                                  !.created_at = ShiftDay(@)]]
          /\ campaigns' = [c \in CampaignIds |->
               [campaigns[c] EXCEPT !.created_at = ShiftDay(@)]]
  /\ UNCHANGED <<otherVars, cronResults>>
  /\ UNCHANGED <<companyEmail, conversations, initialDelivered,
                 followUpsDelivered, cronQueue, svcQueue>>

\* the company-id lists of the create requests
CompanyIdLists == SUBSET (Companies \cup {UnknownCompany})

\* every operation
Next ==
  \/ \E ids \in CompanyIdLists :
       Len(campaigns) < MaxCampaigns /\ CreateCampaign(ids)
  \/ \E ids \in CompanyIdLists :
       Len(campaigns) < MaxCampaigns /\ HandleCreate(ids)
  \/ \E ids \in CompanyIdLists :
       Len(campaigns) < MaxCampaigns /\ CreateEmailCampaign(ids)
  \/ \E c \in 1..MaxCampaigns : StartCampaignHandler(c)
  \/ \E c \in 1..MaxCampaigns : HandleStart(c)
  \/ \E c \in 1..MaxCampaigns : ServiceStartCampaign(c)
  \/ CronFetch
  \/ \E row \in cronQueue, sendOk \in BOOLEAN : CronProcess(row, sendOk)
  \/ ServiceFetch
  \/ \E row \in svcQueue, sendOk \in BOOLEAN : ServiceProcess(row, sendOk)
  \/ \E t \in 1..MaxThreads : ManualFollowUp(t)
  \/ \E t \in 1..MaxThreads : HandleFollowUp(t)
  \/ \E c \in Companies : ProcessIncomingEmail(c)
  \/ ProcessCampaigns
  \/ Tick

Spec == Init /\ [][Next]_vars

\* creation, start, reply detection and the process-campaigns run, over any
\* assignment of email addresses to the companies
NextStart ==
  \/ \E ids \in CompanyIdLists :
       Len(campaigns) < MaxCampaigns /\ CreateCampaign(ids)
  \/ \E ids \in CompanyIdLists :
       Len(campaigns) < MaxCampaigns /\ HandleCreate(ids)
  \/ \E ids \in CompanyIdLists :
       Len(campaigns) < MaxCampaigns /\ CreateEmailCampaign(ids)
  \/ \E c \in 1..MaxCampaigns : StartCampaignHandler(c)
  \/ \E c \in 1..MaxCampaigns : HandleStart(c)
  \/ \E c \in 1..MaxCampaigns : ServiceStartCampaign(c)
  \/ \E c \in Companies : ProcessIncomingEmail(c)
  \/ ProcessCampaigns
  \/ Tick

SpecStart == InitStart /\ [][NextStart]_vars

\* the tables before the first campaign, every company with an email address
InitSweep ==
  /\ InitStart
  /\ companyEmail = [c \in Companies |-> TRUE]
  /\ accountStatus = "active"

\* one campaign, started through the API, and the two follow-up sweeps
NextSweep ==
  \/ \E ids \in CompanyIdLists :
       Len(campaigns) < MaxCampaigns /\ CreateEmailCampaign(ids)
  \/ \E c \in 1..MaxCampaigns : StartCampaignHandler(c)
  \/ CronFetch
  \/ \E row \in cronQueue, sendOk \in BOOLEAN : CronProcess(row, sendOk)
  \/ ServiceFetch
  \/ \E row \in svcQueue, sendOk \in BOOLEAN : ServiceProcess(row, sendOk)
  \/ Tick

SpecSweep == InitSweep /\ [][NextSweep]_vars

\* campaigns over the same companies, started through the API, and reply
\* detection
NextReply ==
  \/ \E ids \in CompanyIdLists : CreateEmailCampaign(ids)
  \/ \E c \in 1..MaxRepliedCampaigns : StartCampaignHandler(c)
  \/ \E c \in Companies : ProcessIncomingEmail(c)
  \/ Tick

SpecReply == InitSweep /\ [][NextReply]_vars

\* one campaign, manual follow-ups, replies and the process-campaigns run,
\* over weeks
NextAging ==
  \/ \E ids \in CompanyIdLists :
       Len(campaigns) < MaxCampaigns /\ CreateEmailCampaign(ids)
  \/ \E c \in 1..MaxCampaigns : StartCampaignHandler(c)
  \/ \E t \in 1..MaxThreads : ManualFollowUp(t)
  \/ \E c \in Companies : ProcessIncomingEmail(c)
  \/ ProcessCampaigns
  \/ Tick
  \/ \E days \in {ThreadMaxAgeDays, CampaignMaxAgeDays} : Elapse(days)

SpecAging == Init /\ [][NextAging]_vars

\* the cache operations of a scrape request, over weeks
NextCache ==
  \/ \E k \in CacheKeys, t \in CacheTypes : GetCachedData(k, t)
  \/ \E k \in CacheKeys, data \in Payloads, call \in CacheCalls :
       SetCachedData(k, data, call[1], call[2])
  \/ Tick
  \/ \E days \in {DirectoryCacheDays, ExtractionCacheDays} : Elapse(days)

SpecCache == Init /\ [][NextCache]_vars

\* the cache operations of scrape requests running at once, over weeks
NextCacheRace ==
  \/ \E k \in CacheKeys, t \in CacheTypes : GetCachedData(k, t)
  \/ \E k \in CacheKeys, t \in CacheTypes : GetCachedDataSelect(k, t)
  \/ \E k \in CacheKeys, t \in CacheTypes : GetCachedDataDelete(k, t)
  \/ \E k \in CacheKeys, data \in Payloads, call \in CacheCalls :
       SetCachedData(k, data, call[1], call[2])
  \/ \E days \in {DirectoryCacheDays, ExtractionCacheDays} : Elapse(days)

SpecCacheRace == Init /\ [][NextCacheRace]_vars

\* the cache operations of scrape requests and the cleanup-cache cron, over
\* months
NextCacheSweep ==
  \/ \E k \in CacheKeys, t \in CacheTypes : GetCachedData(k, t)
  \/ \E k \in CacheKeys, data \in Payloads, call \in CacheCalls :
       SetCachedData(k, data, call[1], call[2])
  \/ \E selectOk \in BOOLEAN, deleteOk \in BOOLEAN, oldDeleteOk \in BOOLEAN :
       CleanupCache(selectOk, deleteOk, oldDeleteOk)
  \/ Tick
  \/ \E days \in {ExtractionCacheDays, RetentionDays} : Elapse(days)

SpecCacheSweep == Init /\ [][NextCacheSweep]_vars

\* scrape requests during which every call is answered, over weeks
NextScrape ==
  \/ \E extract_emails \in BOOLEAN, in \in AnsweredInputs :
       ScrapeBusinesses(Location, extract_emails, in)
  \/ \E days \in {DirectoryCacheDays, ExtractionCacheDays} : Wait(days)

SpecScrape == Init /\ [][NextScrape]_vars

\* scrape requests during which calls of the stores and websites can fail
NextScrapeFailing ==
  \/ \E extract_emails \in BOOLEAN, in \in ScrapeInputs :
       ScrapeBusinesses(Location, extract_emails, in)
  \/ Wait(ExtractionCacheDays)

SpecScrapeFailing == Init /\ [][NextScrapeFailing]_vars

\* scrape requests during which the directory source can fail
NextScrapeDirectory ==
  \/ \E extract_emails \in BOOLEAN, in \in DirectoryInputs :
       ScrapeBusinesses(Location, extract_emails, in)
  \/ \E days \in {DirectoryCacheDays, ExtractionCacheDays} : Wait(days)

SpecScrapeDirectory == Init /\ [][NextScrapeDirectory]_vars

\* the enrichment requests, through the service and through the handler
NextEnrich ==
  \/ \E batchSize \in {1, DefaultBatchSize}, modelOk \in BOOLEAN :
       EnrichCompanyData(batchSize, modelOk)
  \/ \E companyId \in 1..MaxCompanyRows, modelOk \in BOOLEAN :
       EnrichSpecificCompany(companyId, modelOk)
  \/ \E company_id \in {NULL} \cup (1..MaxCompanyRows),
        batch_size \in {1, DefaultBatchSize}, modelOk \in BOOLEAN :
       EnrichCompaniesHandler(company_id, batch_size, modelOk)

SpecEnrich == InitEnrich /\ [][NextEnrich]_vars

\* a campaign, its replies, the process-campaigns run and the daily
\* aggregation, over a week
NextAnalytics ==
  \/ \E ids \in CompanyIdLists :
       Len(campaigns) < MaxCampaigns /\ CreateEmailCampaign(ids)
  \/ \E c \in 1..MaxCampaigns : StartCampaignHandler(c)
  \/ \E c \in Companies : ProcessIncomingEmail(c)
  \/ ProcessCampaigns
  \/ GenerateDailyAnalytics
  \/ Tick

SpecAnalytics == InitSweep /\ [][NextAnalytics]_vars

\* the follow-ups of one thread, over the four send paths
NextSubject ==
  \/ CronFollowUpSubject
  \/ ManualFollowUpSubject
  \/ HandleFollowUpSubject
  \/ ServiceFollowUpSubject

SpecSubject == InitSubject /\ [][NextSubject]_vars

\* a campaign of one thread, created and started through the API on day 0
InitLive ==
  /\ now = 0
  /\ companyEmail = [c \in Companies |-> TRUE]
  /\ campaigns = <<[status |-> "active", company_count |-> 1, created_at |-> 0]>>
  /\ threads \in {<<[NewThread(1, 1) EXCEPT !.sent_at = 0, !.next_follow_up = next]>> :
                     next \in Start_calculateNextFollowUp}
  /\ conversations = <<>>
  /\ initialDelivered = <<1>>
  /\ followUpsDelivered = <<0>>
  /\ cronQueue = {}
  /\ svcQueue = {}
  /\ accountStatus = "active"
  /\ cache = {}
  /\ cacheReturned = NoCall
  /\ cronResults = [sent |-> 0, errors |-> 0]
  /\ companyRows = <<>>
  /\ savedLog = {}
  /\ lastScrape = NoScrape
  /\ enrichmentCache = {}
  /\ lastEnrich = NoEnrich
  /\ dailyAnalytics = <<>>
  /\ subjectThread = PlainThread
  /\ sentSubject = NoSubject
  /\ startFetched = [r \in 1..MaxStartRequests |-> NoStart]
  /\ expiredReads = {}

\* the scheduler's follow-up job on a started campaign, the process-campaigns
\* run and replies, for ever
NextLive ==
  \/ ServiceFetch
  \/ \E row \in svcQueue, sendOk \in BOOLEAN : ServiceProcess(row, sendOk)
  \/ \E c \in Companies : ProcessIncomingEmail(c)
  \/ ProcessCampaigns
  \/ Advance

\* the schedules keep firing, a running loop goes on to its next thread, and
\* of the sends that keep being tried one eventually succeeds
FairLive ==
  /\ WF_vars(Advance)
  /\ WF_vars(ServiceFetch)
  /\ WF_vars(ProcessCampaigns)
  /\ WF_vars(\E row \in svcQueue, sendOk \in BOOLEAN : ServiceProcess(row, sendOk))
  /\ SF_vars(\E row \in svcQueue : ServiceProcess(row, TRUE))

SpecLive == InitLive /\ [][NextLive]_vars /\ FairLive

\* one campaign whose start is requested several times at once, through the
\* API handler and through the service, and the process-campaigns run, over
\* weeks
NextStartRace ==
  \/ \E ids \in CompanyIdLists :
       Len(campaigns) < MaxCampaigns /\ CreateEmailCampaign(ids)
  \/ \E r \in 1..MaxStartRequests, c \in 1..MaxCampaigns : StartRead(r, c)
  \/ \E r \in 1..MaxStartRequests : StartSendAndStamp(r)
  \/ \E c \in 1..MaxCampaigns : ServiceStartCampaign(c)
  \/ ProcessCampaigns
  \/ Tick
  \/ Elapse(CampaignMaxAgeDays)

SpecStartRace == InitSweep /\ [][NextStartRace]_vars

(* ------------------------------ properties ----------------------------- *)
\* the follow-up ceiling MAX of the specification: the ceiling of the cron
\* sweep, the manual handlers and the cleanup
MAX == CronMaxFollowUps

\* C1: in every reachable state every thread with next_follow_up set is
\* pending and has follow_up_count < MAX
NextFollowUpOnlyWhilePendingBelowMax ==
  \A t \in ThreadIds :
    threads[t].next_follow_up # NULL =>
      /\ threads[t].conversation_status = "pending"
      /\ threads[t].follow_up_count < MAX

\* C2: in every reachable state every thread with response_received = true
\* has next_follow_up = null
RespondedHasNoNextFollowUp ==
  \A t \in ThreadIds :
    threads[t].response_received => threads[t].next_follow_up = NULL

\* C3: no step decreases a thread's follow_up_count or takes it above MAX
FollowUpCountMonotoneBounded ==
  [][\A t \in ThreadIds :
       /\ threads'[t].follow_up_count >= threads[t].follow_up_count
       /\ threads'[t].follow_up_count <= MAX]_vars

\* C4: no step delivers a follow-up email to a thread whose sent_at is null
\* or increments its follow_up_count
UnsentThreadGetsNoFollowUp ==
  [][\A t \in ThreadIds :
       threads[t].sent_at = NULL =>
         /\ followUpsDelivered'[t] = followUpsDelivered[t]
         /\ threads'[t].follow_up_count = threads[t].follow_up_count]_vars

\* C5: a thread with response_received = true has status responded and keeps
\* it in every step; no sweep query run from then on fetches it, and no
\* follow-up is delivered to it except by a sweep that fetched it earlier
RespondedIsTerminal ==
  [][\A t \in ThreadIds :
       threads[t].response_received =>
         /\ threads[t].conversation_status = "responded"
         /\ threads'[t].conversation_status = "responded"
         /\ threads'[t].response_received
         /\ \A row \in cronQueue' : row.id = t => row \in cronQueue
         /\ \A row \in svcQueue' : row.id = t => row \in svcQueue
         /\ (\A row \in cronQueue \cup svcQueue : row.id # t)
              => followUpsDelivered'[t] = followUpsDelivered[t]]_vars

\* C5 witness: a responded thread that no sweep holds has a next_follow_up
\* that is due (written back by a sweep that had fetched it before the reply)
RespondedThreadDue ==
  \E t \in ThreadIds :
    /\ threads[t].response_received
    /\ threads[t].conversation_status = "responded"
    /\ threads[t].next_follow_up # NULL
    /\ threads[t].next_follow_up <= now
    /\ \A row \in cronQueue \cup svcQueue : row.id # t

\* C6: for the follow_up_count of every thread, every path makes the same
\* allow/deny decision and the same decision to schedule no further follow-up
SameCeilingOnEveryPath ==
  \A t \in ThreadIds :
    LET k == threads[t].follow_up_count
    IN /\ (k < CronMaxFollowUps) = (k < ServiceMaxFollowUps)
       /\ (k < CronMaxFollowUps) = (k < ManualMaxFollowUps)
       /\ (k < CronMaxFollowUps) = ~(k >= CleanupMinFollowUps)
       /\ (Cron_calculateNextFollowUp(k + 1) = {NULL})
            = (Service_nextFollowUp(k) = {NULL})
       /\ (Cron_calculateNextFollowUp(k + 1) = {NULL})
            = (Manual_calculateNextFollowUp(k + 1) = {NULL})
       /\ (Cron_calculateNextFollowUp(k + 1) = {NULL})
            = (Index_calculateNextFollowUp(k + 1) = {NULL})

\* threads of a campaign
ThreadsOf(c) == {t \in ThreadIds : threads[t].campaign_id = c}

\* C7: every campaign in status active has a thread with sent_at set
ActiveCampaignHasSentThread ==
  \A c \in CampaignIds :
    campaigns[c].status = "active" =>
      \E t \in ThreadsOf(c) : threads[t].sent_at # NULL

\* C8: in a step that delivers an initial email for a draft campaign, every
\* thread delivered to gets sent_at and next_follow_up set, every other thread
\* of the campaign is unchanged, and the campaign ends active
StartSendsAndSchedules ==
  [][\A c \in CampaignIds :
       LET delivered == {t \in ThreadsOf(c) :
                           initialDelivered'[t] = initialDelivered[t] + 1}
       IN (campaigns[c].status = "draft" /\ delivered # {}) =>
            /\ \A t \in delivered : /\ threads'[t].sent_at = now
                                    /\ threads'[t].next_follow_up # NULL
            /\ \A t \in ThreadsOf(c) \ delivered : threads'[t] = threads[t]
            /\ campaigns'[c].status = "active"]_vars

\* C9: a campaign in which some thread was sent and another, whose company
\* has an email, is still pending and unsent accepts a start request
PartlySentCampaignCanBeStartedAgain ==
  \A c \in CampaignIds :
    ( /\ \E t \in ThreadsOf(c) : threads[t].sent_at # NULL
      /\ \E t \in PendingUnsentThreads(c) : companyEmail[threads[t].company_id] )
    => campaigns[c].status = "draft"

\* C10: every campaign row exists together with one thread for every one of
\* its target company ids
CampaignHasAllItsThreads ==
  \A c \in CampaignIds :
    Cardinality(ThreadsOf(c)) = campaigns[c].company_count

\* C11: a step that creates a campaign creates exactly one, in draft, for a
\* non-empty company-id list, with company_count threads, one per company id,
\* each pending, unsent, with follow_up_count 0 and no next_follow_up
CreateMakesDraftWithOneThreadPerCompany ==
  [][Len(campaigns') # Len(campaigns) =>
       LET c == Len(campaigns')
           new == DOMAIN threads' \ DOMAIN threads
       IN /\ Len(campaigns') = Len(campaigns) + 1
          /\ campaigns'[c].status = "draft"
          /\ campaigns'[c].company_count > 0
          /\ Cardinality(new) = campaigns'[c].company_count
          /\ \A t, u \in new :
               threads'[t].company_id = threads'[u].company_id => t = u
          /\ \A t \in new :
               /\ threads'[t].campaign_id = c
               /\ threads'[t].conversation_status = "pending"
               /\ threads'[t].follow_up_count = 0
               /\ threads'[t].sent_at = NULL
               /\ threads'[t].next_follow_up = NULL]_vars

\* C12: while the owning account's status is not active, no step delivers an
\* initial or a follow-up email or changes a thread's sent_at or
\* follow_up_count
InactiveAccountSendsNothing ==
  [][accountStatus # "active" =>
       \A t \in ThreadIds :
            /\ initialDelivered'[t] = initialDelivered[t]
            /\ followUpsDelivered'[t] = followUpsDelivered[t]
            /\ threads'[t].sent_at = threads[t].sent_at
            /\ threads'[t].follow_up_count = threads[t].follow_up_count]_vars

FollowUpDelaysTwiceWeeklyThenWeekly ==
  [][\A t \in ThreadIds :
       (\/ initialDelivered'[t] # initialDelivered[t]
        \/ followUpsDelivered'[t] # followUpsDelivered[t]) =>
         LET k == threads'[t].follow_up_count
         IN /\ k <= 1 => threads'[t].next_follow_up \in {now + d : d \in RandomDays}
            /\ (2 <= k /\ k < MAX) => threads'[t].next_follow_up = now + WeeklyDays]_vars

\* C15: a step that appends a Conversation or changes a thread's
\* response_received does so for a message of one company with an email: it
\* marks the most recently created open thread of that company responded with
\* next_follow_up null, appends exactly one Conversation with sender prospect
\* for it, and leaves every other thread as it was
ReplyMarksOnlyLatestOpenThread ==
  [][(\/ conversations' # conversations
      \/ \E t \in ThreadIds :
           threads'[t].response_received # threads[t].response_received) =>
       \E c \in Companies :
         /\ companyEmail[c]
         /\ \E t \in ThreadIds :
              /\ threads[t].company_id = c
              /\ ~threads[t].response_received
              /\ \A u \in ThreadIds :
                   (threads[u].company_id = c /\ ~threads[u].response_received)
                     => threads[u].created_at <= threads[t].created_at
              /\ threads' = [threads EXCEPT ![t] =
                               [@ EXCEPT !.response_received = TRUE,
                                         !.conversation_status = "responded",
                                         !.next_follow_up = NULL]]
              /\ conversations' = Append(conversations,
                                         [thread_id |-> t, sender |-> "prospect"])]_vars

\* C15 witness: the later created of two threads of one company is responded,
\* with one Conversation, and the earlier created one is still open
LaterThreadRespondedEarlierOpen ==
  \E t, u \in ThreadIds :
    /\ threads[t].company_id = threads[u].company_id
    /\ threads[u].created_at < threads[t].created_at
    /\ threads[t].response_received
    /\ threads[t].next_follow_up = NULL
    /\ ~threads[u].response_received
    /\ threads[u].next_follow_up # NULL
    /\ Len(conversations) = 1
    /\ conversations[1].thread_id = t

\* C16: processing the inbound message of a company a second time changes
\* neither the threads nor the conversations left by processing it once
DuplicateReplyChangesNothing ==
  \A c \in Companies :
    LET th1 == ThreadsAfterReply(threads, c)
        cv1 == ConversationsAfterReply(threads, conversations, c)
    IN /\ ThreadsAfterReply(th1, c) = th1
       /\ ConversationsAfterReply(th1, cv1, c) = cv1

\* C17: the cleanup of a process-campaigns run sets conversation_status =
\* completed on exactly the threads created more than 6 weeks ago that are
\* pending with follow_up_count >= MAX, changes no other thread, and leaves
\* every thread with a status the store accepts
CleanupCompletesExactlyAgedThreads ==
  \A t \in ThreadIds :
    /\ ThreadsAfterCleanup[t].conversation_status \in ThreadStatusAccepted
    /\ IF /\ threads[t].created_at < now - ThreadMaxAgeDays
          /\ threads[t].conversation_status = "pending"
          /\ threads[t].follow_up_count >= MAX
       THEN ThreadsAfterCleanup[t] =
              [threads[t] EXCEPT !.conversation_status = "completed"]
       ELSE ThreadsAfterCleanup[t] = threads[t]

AgedCampaignIsCompleted ==
  \A c \in CampaignIds :
    campaigns[c].created_at + CampaignMaxAgeDays <= now =>
      CampaignsAfterArchive[c].status = "completed"

\* C20: a payload returned by the last cache get is the one of an entry that
\* had not expired when it was returned, and after a get that returned a miss
\* the cache holds no entry for that (key, category)
ExpiredEntryIsNeverReturned ==
  cacheReturned.called =>
    IF cacheReturned.payload # NULL
    THEN \E row \in cache :
           /\ row.business_key = cacheReturned.key
           /\ row.cache_type = cacheReturned.type
           /\ row.cached_data = cacheReturned.payload
           /\ row.expires_at >= cacheReturned.at
    ELSE \A row \in cache :
           ~(row.business_key = cacheReturned.key /\ row.cache_type = cacheReturned.type)

\* C20 witness: the last get found its entry expired, returned a miss, and
\* the entry is gone while another category's entry of the key remains
ExpiredEntryDeletedOnGet ==
  /\ cacheReturned.called
  /\ cacheReturned.expired
  /\ cacheReturned.payload = NULL
  /\ CacheRows(cacheReturned.key, cacheReturned.type) = {}
  /\ cache # {}
\* C21: a cache get that follows a get of the same key and category, with no
\* set between the two and the entry not expired by the second, returns what
\* the first returned, and a get that returns a payload leaves the cache as
\* it was
ConsecutiveGetsAgree ==
  [][/\ (cacheReturned'.called /\ cacheReturned'.payload # NULL) => cache' = cache
     /\ (/\ cacheReturned.called
         /\ cacheReturned'.called
         /\ cacheReturned'.key = cacheReturned.key
         /\ cacheReturned'.type = cacheReturned.type
         /\ \A row \in CacheRows(cacheReturned.key, cacheReturned.type) :
              row.expires_at >= now')
        => cacheReturned'.payload = cacheReturned.payload]_vars

\* C21 witness: a get has returned a payload on a later day than the get of
\* the same key and category before it, and the entry is still in the cache
SecondGetHitLater ==
  /\ cacheReturned.called
  /\ cacheReturned.repeated
  /\ cacheReturned.payload # NULL
  /\ cacheReturned.at > 0
  /\ CacheRows(cacheReturned.key, cacheReturned.type) # {}

SweepRemovesExpiredAndAged ==
  \A selectOk \in BOOLEAN, deleteOk \in BOOLEAN :
    \A row \in CacheAfterCleanup(cache, selectOk, deleteOk, TRUE) :
      /\ row.expires_at >= now
      /\ row.created_at >= now - RetentionDays

\* the company records a request returns, in the order of its businesses
CompaniesOf(outcomes) == [i \in 1..Len(outcomes) |-> outcomes[i].company]

\* C24: a request during which the reads or the writes of the cache fail
\* returns the companies, and leaves the companies table, that the same
\* request returns and leaves when it starts on an empty cache and every
\* cache call is answered
CacheFailureIsAMiss ==
  \A in \in ScrapeInputs, extract_emails \in BOOLEAN :
    (~in.readOk \/ ~in.writeOk) =>
      LET failing == scrapeBusinesses(IF in.readOk THEN {} ELSE cache,
                                      companyRows, Location, extract_emails, in)
          empty == scrapeBusinesses({}, companyRows, Location, extract_emails,
                                    [in EXCEPT !.readOk = TRUE, !.writeOk = TRUE])
      IN /\ CompaniesOf(failing.outcomes) = CompaniesOf(empty.outcomes)
         /\ failing.rows = empty.rows

\* C25: a scrape request made within 7 days of the request before it, for
\* the same location, business type and source, makes no call of the
\* directory source and leaves the companies table as it was
SecondScrapeWithinAWeekChangesNothing ==
  [][(/\ lastScrape.called
      /\ lastScrape'.called
      /\ now' = now
      /\ now - lastScrape.at <= DirectoryCacheDays)
     => (~lastScrape'.directoryCalled /\ companyRows' = companyRows)]_vars

\* the spec's identity of a name: lowercased, non-alphanumeric stripped
NormalizedName(name) == StripNonAlphaNumeric(toLowerCase(name))

\* C26: of two businesses that a request for one location processes and whose
\* names differ only in case, spacing or non-alphanumeric characters, both
\* have the same identity key and the second is reported from the cache as a
\* duplicate of the first
SpellingsOfANameAreDuplicates ==
  lastScrape.called =>
    \A i \in 1..Len(lastScrape.outcomes), j \in 1..Len(lastScrape.outcomes) :
      (/\ i < j
       /\ NormalizedName(lastScrape.outcomes[i].name) =
            NormalizedName(lastScrape.outcomes[j].name))
      => /\ lastScrape.outcomes[i].key = lastScrape.outcomes[j].key
         /\ lastScrape.outcomes[j].fromCache

EnrichedCompanyHasContent ==
  \A id \in DOMAIN companyRows :
    companyRows[id].enriched_data # NULL =>
      ContentLength(companyRows[id]) >= MinContentLength

\* C29: an enrichment request calls the language model for no company whose
\* website had a profile in the enrichment cache
CachedProfileSparesTheModel ==
  lastEnrich.called => lastEnrich.modelCalls \cap lastEnrich.cachedBefore = {}

\* C30: a run of the daily aggregation, whatever runs came before it on the
\* day, leaves for every metric name exactly one row of the day, holding the
\* value computed from the data of the run
DailyRunLeavesOneRowPerMetric ==
  LET after == AnalyticsAfterDaily(dailyAnalytics)
  IN \A metric_name \in CompanyMetrics \cup ThreadMetrics :
       LET ofDay == {i \in DOMAIN after : /\ after[i].metric_name = metric_name
                                          /\ after[i].date = now}
       IN /\ Cardinality(ofDay) = 1
          /\ \A i \in ofDay : after[i].value = MetricValue(metric_name)

\* C31: the subject of every follow-up email, on every send path and for any
\* original subject and follow-up number, starts with exactly one follow-up
\* prefix: no subject starts with two
FollowUpSubjectHasOnePrefix ==
  LET subject == sentSubject.subject
      IsPrefix(i) == i <= Len(subject) /\ subject[i] \in Matched(Cron_prefixes)
  IN sentSubject.sent => IsPrefix(1) /\ ~IsPrefix(2)

\* C32: for every thread the number of follow-up emails delivered to the
\* mailbox provider equals follow_up_count and never exceeds MAX, also when
\* two sweeps have read the same due thread
DeliveredFollowUpsEqualCount ==
  \A t \in ThreadIds :
    /\ followUpsDelivered[t] = threads[t].follow_up_count
    /\ followUpsDelivered[t] <= MAX

\* C33: no start operation sends the initial email of a thread whose sent_at
\* is set, or writes its sent_at again
InitialEmailSentOnce ==
  [][\A t \in ThreadIds :
       threads[t].sent_at # NULL =>
         /\ initialDelivered'[t] = initialDelivered[t]
         /\ threads'[t].sent_at = threads[t].sent_at]_vars

\* C34: no step writes a campaign's status backwards: an active campaign is
\* never written back to draft, a completed one never to active or draft
CampaignStatusMovesForward ==
  [][LET StatusRank(status) == CASE status = "draft" -> 0
                                 [] status = "active" -> 1
                                 [] status = "paused" -> 1
                                 [] status = "completed" -> 2
     IN \A c \in CampaignIds :
          StatusRank(campaigns'[c].status) >= StatusRank(campaigns[c].status)]_vars

\* C35: in every reachable state a thread with response_received = true, or
\* with conversation_status = responded, has sent_at set
RespondedThreadWasSent ==
  \A t \in ThreadIds :
    (threads[t].response_received \/ threads[t].conversation_status = "responded")
      => threads[t].sent_at # NULL

\* C37: after a request whose directory scrape failed, the next request for
\* the same (location, business_type, source) calls the directory source
\* again: the failure left no directory cache entry that would answer it
FailedDirectoryScrapeIsNotCached ==
  (lastScrape.called /\ lastScrape.directoryFailed) =>
    \A extract_emails \in BOOLEAN, in \in DirectoryInputs :
      scrapeBusinesses(cache, companyRows, Location, extract_emails,
                       in).directoryCalled

\* C36: no step of a cache get removes an unexpired entry: an entry that has
\* not expired still has its (key, category) in the table after the step,
\* also when a set refreshed it between the get's read and the get's delete
GetDeletesOnlyExpiredEntries ==
  [][\A row \in cache :
       now <= row.expires_at =>
         RowsIn(cache', row.business_key, row.cache_type) # {}]_vars

\* C39: a sweep sends a follow-up to a thread only while the thread's
\* next_follow_up is at or before the time of the send, so that a thread
\* just advanced (next_follow_up at least 3 days ahead) gets no second
\* automated follow-up within 3 days
SweepAdvancesOnlyDueThreads ==
  [][\A t \in ThreadIds :
       followUpsDelivered'[t] > followUpsDelivered[t] =>
         /\ threads[t].next_follow_up # NULL
         /\ threads[t].next_follow_up <= now]_vars

\* C38: under repeated sweeps and cleanup runs, with every send eventually
\* succeeding, every sent thread eventually reaches and keeps a state with
\* next_follow_up = null and follow_up_count = MAX, or responded, or
\* completed
SentThreadEventuallySettles ==
  \A t \in {1} :
    [](threads[t].sent_at # NULL =>
         <>[](\/ threads[t].next_follow_up = NULL /\ threads[t].follow_up_count = MAX
              \/ threads[t].conversation_status = "responded"
              \/ threads[t].conversation_status = "completed"))

====
